---- MODULE Spec2Model ----
(***************************************************************************)
(* Model of src/api/controllers/chat-v2.ts: the Connect RPC chat           *)
(* controller (credential extraction and classification, scenario          *)
(* resolution, single-shot completion and SSE streaming).                  *)
(*                                                                         *)
(* Strings the code inspects character by character (model names, header   *)
(* values) are sequences of one-character strings.                         *)
(***************************************************************************)
EXTENDS Integers, Sequences, FiniteSets, TLC

VARIABLES
    \* resolveScenario
    model,          \* the model name handed to resolveScenario
    scPc,           \* "call" | "returned"
    scenario,       \* resolved scenario tag ("" before the call returns)
    thinking,       \* resolved thinking flag
    \* extractAuthToken
    headers,        \* ctx.request.headers: a function from header names to values
    authPc,         \* "call" | "returned" | "thrown"
    token,          \* the returned token
    authError,      \* message of the APIException thrown ("" if none)
    \* createCompletionV2 / createCompletionStreamV2: the call itself
    mode,           \* "completion" | "stream": which entry point is called
    authToken,      \* the credential argument
    messages,       \* the messages argument
    pc,             \* "start" | "gated" | "awaitChatText" | "prepared" | "returned" | "thrown"
    error,          \* what the call threw ("" if nothing)
    rpcCalls,       \* log of the uses of ConnectRPCClient: "new", "chatText", "chat"
    messageContent, \* text extracted from the last message
    config,         \* the ConnectConfig built for the request
    result,         \* the completion object createCompletionV2 returns
    \* createCompletionStreamV2: the PassThrough and the background task
    stream,         \* "none" | "open" | "ended" | "destroyed"
    streamError,    \* the error the stream was destroyed with ("" if none)
    destroyedBy,    \* "" | "producer" | "consumer"
    pcProd,         \* "idle" | "awaitChat" | "loop" | "content" | "done" | "sentinel" | "end" | "finished" | "failed"
    connectMessages,\* what client.chat resolved to
    consumed,       \* number of elements taken from connectMessages
    writeCalls,     \* every frame handed to stream.write, in order
    buffer,         \* frames written and not yet read by the consumer
    delivered,      \* frames the consumer has read
    needDrain       \* a write reported a full buffer and no drain has happened since

scVars     == <<model, scPc, scenario, thinking>>
authVars   == <<headers, authPc, token, authError>>
reqVars    == <<mode, authToken, messages, pc, error, rpcCalls, messageContent, config, result>>
streamVars == <<stream, streamError, destroyedBy, buffer, delivered, needDrain>>
prodVars   == <<pcProd, connectMessages, consumed, writeCalls>>
vars       == <<scVars, authVars, reqVars, streamVars, prodVars>>

----------------------------------------------------------------------------
(* Bounds *)

\* a model name is the concatenation of at most MaxParts fragments
MaxParts == 3
\* a header value is the concatenation of at most MaxHeaderParts fragments
MaxHeaderParts == 3
\* client.chat resolves to at most MaxMsgs backend messages
MaxMsgs == 3
\* writable high-water mark of the PassThrough, counted in frames
HighWaterMark == 2

----------------------------------------------------------------------------
(* String helpers *)

\* String.prototype.includes
Includes(s, needle) ==
    \E i \in 0..(Len(s) - Len(needle)) :
        SubSeq(s, i + 1, i + Len(needle)) = needle

RECURSIVE Concat(_)
Concat(parts) ==
    IF parts = <<>> THEN <<>> ELSE Head(parts) \o Concat(Tail(parts))

\* all sequences over S of length at most n
SeqsUpTo(S, n) == UNION { [1..k -> S] : k \in 0..n }

K25      == <<"k", "2", ".", "5">>
SEARCH   == <<"s", "e", "a", "r", "c", "h">>
RESEARCH == <<"r", "e", "s", "e", "a", "r", "c", "h">>
K1       == <<"k", "1">>
THINKING == <<"t", "h", "i", "n", "k", "i", "n", "g">>

\* fragments model names are built from: the needles, pieces of them that
\* only form a needle when joined, and filler
NameFragments ==
    { K25, SEARCH, RESEARCH, K1, THINKING,
      <<"k", "i", "m", "i", "-">>, <<"-">>, <<"r", "e">>,
      <<"s", "e", "a">>, <<"r", "c", "h">>, <<"k">>, <<"2", ".", "5">>,
      <<"t", "h", "i", "n", "k">>, <<"i", "n", "g">> }

ModelNames == { Concat(p) : p \in SeqsUpTo(NameFragments, MaxParts) }

----------------------------------------------------------------------------
(* resolveScenario *)

\* resolveScenario with the "search" test ahead of the "k2.5" test
resolveScenario_SearchFirst(m) ==
    LET t == Includes(m, THINKING) IN
    IF Includes(m, SEARCH) THEN [scenario |-> "SCENARIO_SEARCH", thinking |-> t]
    ELSE IF Includes(m, K25) THEN [scenario |-> "SCENARIO_K2", thinking |-> t]
    ELSE IF Includes(m, RESEARCH) THEN [scenario |-> "SCENARIO_RESEARCH", thinking |-> t]
    ELSE IF Includes(m, K1) THEN [scenario |-> "SCENARIO_K1", thinking |-> t]
    ELSE [scenario |-> "SCENARIO_K2", thinking |-> t]

resolveScenario(m) ==
    LET t == Includes(m, THINKING) IN
    IF Includes(m, K25) THEN [scenario |-> "SCENARIO_K2", thinking |-> t]
    ELSE IF Includes(m, SEARCH) THEN [scenario |-> "SCENARIO_SEARCH", thinking |-> t]
    ELSE IF Includes(m, RESEARCH) THEN [scenario |-> "SCENARIO_RESEARCH", thinking |-> t]
    ELSE IF Includes(m, K1) THEN [scenario |-> "SCENARIO_K1", thinking |-> t]
    ELSE [scenario |-> "SCENARIO_K2", thinking |-> t]

ScInit ==
    /\ model \in ModelNames
    /\ scPc = "call"
    /\ scenario = ""
    /\ thinking = FALSE

ResolveScenario ==
    /\ scPc = "call"
    /\ scenario' = resolveScenario(model).scenario
    /\ thinking' = resolveScenario(model).thinking
    /\ scPc' = "returned"
    /\ UNCHANGED model

----------------------------------------------------------------------------
(* extractAuthToken *)

BearerUC == <<"B", "e", "a", "r", "e", "r">>
BearerLC == <<"b", "e", "a", "r", "e", "r">>

\* fragments header values are built from
HeaderFragments == { BearerUC, BearerLC, <<" ">>, <<"x">> }

HeaderValues == { Concat(p) : p \in SeqsUpTo(HeaderFragments, MaxHeaderParts) }

HeaderNames == { "authorization", "x-goog-api-key" }

\* header sets: each of the two headers absent or present with a value
HeaderSets == UNION { [D -> HeaderValues] : D \in SUBSET HeaderNames }

\* headers[name], undefined when the header is absent; both undefined and
\* the empty string are falsy
Truthy(h, name) == name \in DOMAIN h /\ h[name] # <<>>

IsSpace(c) == c \in { " ", "\t", "\n" }

\* the i flag of the regular expression
Lower(c) ==
    CASE c = "B" -> "b"
      [] c = "E" -> "e"
      [] c = "A" -> "a"
      [] c = "R" -> "r"
      [] OTHER -> c

LowerAll(s) == [i \in 1..Len(s) |-> Lower(s[i])]

RECURSIVE TrimStart(_)
TrimStart(s) ==
    IF s # <<>> /\ IsSpace(Head(s)) THEN TrimStart(Tail(s)) ELSE s

RECURSIVE TrimEnd(_)
TrimEnd(s) ==
    IF s # <<>> /\ IsSpace(s[Len(s)]) THEN TrimEnd(SubSeq(s, 1, Len(s) - 1)) ELSE s

\* String.prototype.trim
Trim(s) == TrimEnd(TrimStart(s))

\* s.replace(/^Bearer\s+/i, ''): the prefix "bearer" in any case followed
\* by one or more whitespace characters is removed, once
ReplaceBearer(s) ==
    IF /\ Len(s) >= 7
       /\ LowerAll(SubSeq(s, 1, 6)) = BearerLC
       /\ IsSpace(s[7])
    THEN TrimStart(SubSeq(s, 7, Len(s)))
    ELSE s

MissingMsg == "Missing Authorization header or x-goog-api-key"
InvalidMsg == "Invalid Authorization header format"

\* the value of tokenHeader after lines 31-34 (<<>> stands for a falsy one)
TokenHeader(h) ==
    IF Truthy(h, "authorization") THEN h["authorization"]
    ELSE IF Truthy(h, "x-goog-api-key") THEN BearerUC \o <<" ">> \o h["x-goog-api-key"]
    ELSE <<>>

extractAuthToken(h) ==
    LET tokenHeader == TokenHeader(h)
        tok == Trim(ReplaceBearer(tokenHeader))
    IN  IF tokenHeader = <<>> THEN [pc |-> "thrown", token |-> <<>>, error |-> MissingMsg]
        ELSE IF tok = <<>> THEN [pc |-> "thrown", token |-> <<>>, error |-> InvalidMsg]
        ELSE [pc |-> "returned", token |-> tok, error |-> ""]

AuthInit ==
    /\ headers \in HeaderSets
    /\ authPc = "call"
    /\ token = <<>>
    /\ authError = ""

ExtractAuthToken ==
    /\ authPc = "call"
    /\ authPc' = extractAuthToken(headers).pc
    /\ token' = extractAuthToken(headers).token
    /\ authError' = extractAuthToken(headers).error
    /\ UNCHANGED headers

----------------------------------------------------------------------------
(* detectTokenType and the JWT claim readers *)

\* A credential is described by what the code looks at: whether it starts
\* with "eyJ", its number of dot-separated segments, what its second
\* segment decodes to ("invalid": JSON.parse throws; "null": parses to
\* null; "object": parses to an object), and the claims of that object
\* ("undefined" for a claim the object lacks).
Undefined == "undefined"

Tokens ==
    { [eyJ |-> e, segments |-> n, payload |-> p, app_id |-> a, typ |-> t,
       device_id |-> "dev-1", ssid |-> Undefined, sub |-> "user-1"] :
        e \in BOOLEAN, n \in { 1, 3, 4 }, p \in { "invalid", "null", "object" },
        a \in { "kimi", "other" }, t \in { "access", Undefined } }

\* JSON.parse(Buffer.from(token.split('.')[1], 'base64').toString()) followed
\* by a property read: "throws" or the property's value
PayloadField(t, name) ==
    IF t.segments < 2 \/ t.payload # "object" THEN "throws" ELSE t[name]

detectTokenType(t) ==
    IF t.eyJ /\ t.segments = 3
    THEN IF PayloadField(t, "app_id") = "kimi" /\ PayloadField(t, "typ") = "access"
         THEN "jwt" ELSE "refresh"
    ELSE "refresh"

ClaimOrUndefined(t, name) ==
    IF PayloadField(t, name) = "throws" THEN Undefined ELSE PayloadField(t, name)

extractDeviceIdFromJWT(t)  == ClaimOrUndefined(t, "device_id")
extractSessionIdFromJWT(t) == ClaimOrUndefined(t, "ssid")
extractUserIdFromJWT(t)    == ClaimOrUndefined(t, "sub")

----------------------------------------------------------------------------
(* The request: messages, text extraction, configuration *)

StrMsg ==
    [kind |-> "string", str |-> <<"H", "i">>, parts |-> <<>>]
PartsMsg ==
    [kind |-> "array", str |-> <<>>,
     parts |-> << [type |-> "text", text |-> <<"a">>],
                  [type |-> "image", text |-> <<>>],
                  [type |-> "text", text |-> <<"b">>] >>]
OtherMsg ==
    [kind |-> "other", str |-> <<>>, parts |-> <<>>]

RequestMessages == { <<>>, <<StrMsg>>, <<StrMsg, PartsMsg>>, <<PartsMsg, OtherMsg>> }

\* Array.prototype.join
RECURSIVE Join(_, _)
Join(texts, sep) ==
    IF texts = <<>> THEN <<>>
    ELSE IF Len(texts) = 1 THEN Head(texts)
    ELSE Head(texts) \o sep \o Join(Tail(texts), sep)

IsTextPart(item) == item.type = "text"

\* the text of the last message (lines 107-117 and 215-225)
MessageContent(lastMessage) ==
    IF lastMessage.kind = "string" THEN lastMessage.str
    ELSE IF lastMessage.kind = "array"
    THEN LET texts == SelectSeq(lastMessage.parts, IsTextPart)
         IN  Join([i \in 1..Len(texts) |-> texts[i].text], <<"\n">>)
    ELSE <<>>

NoToken ==
    [eyJ |-> FALSE, segments |-> 0, payload |-> "invalid", app_id |-> Undefined,
     typ |-> Undefined, device_id |-> Undefined, ssid |-> Undefined, sub |-> Undefined]

NoConfig ==
    [baseUrl |-> "", authToken |-> NoToken, deviceId |-> Undefined,
     sessionId |-> Undefined, userId |-> Undefined]

ConnectConfig(t) ==
    [baseUrl |-> "https://www.kimi.com", authToken |-> t,
     deviceId |-> extractDeviceIdFromJWT(t),
     sessionId |-> extractSessionIdFromJWT(t),
     userId |-> extractUserIdFromJWT(t)]

NoResult ==
    [id |-> "", model |-> <<>>, object |-> "", content |-> <<>>, finish_reason |-> "",
     prompt_tokens |-> 0, completion_tokens |-> 0, total_tokens |-> 0]

\* what client.chatText may resolve to
Responses ==
    { [chatId |-> c, text |-> t] : c \in { "", "chat-1" }, t \in { <<>>, <<"o", "k">> } }

UnsupportedMsgV2 ==
    "Connect RPC requires JWT token. Please extract kimi-auth from browser cookies. See docs/CONNECT_RPC_CONFIG_GUIDE.md"
UnsupportedMsgStream ==
    "Connect RPC requires JWT token. Please extract kimi-auth from browser cookies."

\* model names the two entry points are called with
RequestModels ==
    { <<"k", "i", "m", "i", "-">> \o K25 \o <<"-">> \o THINKING,
      <<"k", "i", "m", "i", "-">> \o SEARCH }

----------------------------------------------------------------------------
(* Stream frames *)

\* `data: ${JSON.stringify(chunk)}\n\n`; id and created are left out
Frame(body) == [prefix |-> "data: ", body |-> body, term |-> "\n\n"]

ContentChunk(m, text) ==
    Frame([object |-> "chat.completion.chunk", model |-> m, hasContent |-> TRUE,
           content |-> text, finish_reason |-> "null"])

EndChunk(m) ==
    Frame([object |-> "chat.completion.chunk", model |-> m, hasContent |-> FALSE,
           content |-> "", finish_reason |-> "stop"])

\* 'data: [DONE]\n\n'
Sentinel ==
    Frame([object |-> "[DONE]", model |-> <<>>, hasContent |-> FALSE,
           content |-> "", finish_reason |-> ""])

\* a backend message: hasText is whether msg.block.text exists, content is
\* msg.block.text.content, done is msg.done
BackendMessages ==
    { [hasText |-> FALSE, content |-> "", done |-> d] : d \in BOOLEAN }
    \cup { [hasText |-> TRUE, content |-> c, done |-> d] :
             c \in { "", "a", "b" }, d \in BOOLEAN }

\* msg.block?.text?.content is truthy
HasContent(msg) == msg.hasText /\ msg.content # ""

----------------------------------------------------------------------------
(* createCompletionV2 and createCompletionStreamV2 up to the backend call *)

ReqInit ==
    /\ mode \in { "completion", "stream" }
    /\ authToken \in Tokens
    /\ messages \in RequestMessages
    /\ pc = "start"
    /\ error = ""
    /\ rpcCalls = <<>>
    /\ messageContent = <<>>
    /\ config = NoConfig
    /\ result = NoResult
    /\ stream = "none"
    /\ streamError = ""
    /\ destroyedBy = ""
    /\ pcProd = "idle"
    /\ connectMessages = <<>>
    /\ consumed = 0
    /\ writeCalls = <<>>
    /\ buffer = <<>>
    /\ delivered = <<>>
    /\ needDrain = FALSE

\* the token gate skipped: every credential is let through
Gate_NoCheck ==
    /\ pc = "start"
    /\ pc' = "gated"
    /\ UNCHANGED <<mode, authToken, messages, error, rpcCalls, messageContent, config, result>>
    /\ UNCHANGED <<scVars, authVars, streamVars, prodVars>>

\* lines 98-105 and 206-213
Gate ==
    /\ pc = "start"
    /\ IF detectTokenType(authToken) # "jwt"
       THEN /\ pc' = "thrown"
            /\ error' = IF mode = "completion" THEN UnsupportedMsgV2 ELSE UnsupportedMsgStream
       ELSE /\ pc' = "gated"
            /\ UNCHANGED error
    /\ UNCHANGED <<mode, authToken, messages, rpcCalls, messageContent, config, result>>
    /\ UNCHANGED <<scVars, authVars, streamVars, prodVars>>

\* lines 107-135 and 215-247: text extraction, configuration, client,
\* scenario, and the backend call; in streaming the PassThrough is created
\* and the background task runs up to its await
Prepare ==
    /\ pc = "gated"
    /\ IF messages = <<>>
       THEN \* lastMessage is undefined: reading lastMessage.content throws
            /\ pc' = "thrown"
            /\ error' = "TypeError"
            /\ UNCHANGED <<rpcCalls, messageContent, config, scenario, thinking,
                           stream, pcProd>>
       ELSE /\ messageContent' = MessageContent(messages[Len(messages)])
            /\ config' = ConnectConfig(authToken)
            /\ scenario' = resolveScenario(model).scenario
            /\ thinking' = resolveScenario(model).thinking
            /\ UNCHANGED error
            /\ IF mode = "completion"
               THEN /\ rpcCalls' = rpcCalls \o <<"new", "chatText">>
                    /\ pc' = "awaitChatText"
                    /\ UNCHANGED <<stream, pcProd>>
               ELSE /\ rpcCalls' = rpcCalls \o <<"new", "chat">>
                    /\ stream' = "open"
                    /\ pcProd' = "awaitChat"
                    /\ pc' = "prepared"
    /\ UNCHANGED <<mode, authToken, messages, result, model, scPc>>
    /\ UNCHANGED <<authVars, streamError, destroyedBy, buffer, delivered, needDrain>>
    /\ UNCHANGED <<connectMessages, consumed, writeCalls>>

\* lines 132-157: client.chatText resolves
ChatTextResolves ==
    /\ pc = "awaitChatText"
    /\ \E response \in Responses :
        result' = [id |-> IF response.chatId # "" THEN response.chatId ELSE "uuid",
                   model |-> model,
                   object |-> "chat.completion",
                   content |-> response.text,
                   finish_reason |-> "stop",
                   prompt_tokens |-> Len(messageContent),
                   completion_tokens |-> Len(response.text),
                   total_tokens |-> Len(messageContent) + Len(response.text)]
    /\ pc' = "returned"
    /\ UNCHANGED <<mode, authToken, messages, error, rpcCalls, messageContent, config>>
    /\ UNCHANGED <<scVars, authVars, streamVars, prodVars>>

\* line 132: client.chatText rejects and the rejection propagates
ChatTextRejects ==
    /\ pc = "awaitChatText"
    /\ pc' = "thrown"
    /\ error' = "BackendError"
    /\ UNCHANGED <<mode, authToken, messages, rpcCalls, messageContent, config, result>>
    /\ UNCHANGED <<scVars, authVars, streamVars, prodVars>>

\* the background task is not in the middle of a synchronous run: it is
\* suspended at its await or is over
TaskAtRest == pcProd \in { "awaitChat", "finished", "failed" }

\* line 298: the stream is handed to the caller, which resumes in a later
\* turn of the event loop
ReturnStream ==
    /\ pc = "prepared"
    /\ TaskAtRest
    /\ pc' = "returned"
    /\ UNCHANGED <<mode, authToken, messages, error, rpcCalls, messageContent, config, result>>
    /\ UNCHANGED <<scVars, authVars, streamVars, prodVars>>

----------------------------------------------------------------------------
(* The PassThrough *)

\* stream.write(frame): a destroyed stream takes nothing; an open one
\* buffers the frame and reports a full buffer at the high-water mark
StreamWrite(frame) ==
    /\ writeCalls' = Append(writeCalls, frame)
    /\ IF stream = "open"
       THEN /\ buffer' = Append(buffer, frame)
            /\ needDrain' = (needDrain \/ Len(buffer) + 1 >= HighWaterMark)
       ELSE UNCHANGED <<buffer, needDrain>>
    /\ UNCHANGED <<stream, streamError, destroyedBy, delivered>>

\* the catch block ending the stream instead of destroying it
StreamDestroy_EndsInstead(err) ==
    /\ stream' = IF stream = "open" THEN "ended" ELSE stream
    /\ UNCHANGED <<streamError, destroyedBy, buffer, delivered, needDrain>>

\* stream.destroy(err): no effect on a stream already destroyed
StreamDestroy(err) ==
    /\ IF stream # "destroyed"
       THEN /\ stream' = "destroyed"
            /\ streamError' = err
            /\ destroyedBy' = "producer"
            /\ buffer' = <<>>
       ELSE UNCHANGED <<stream, streamError, destroyedBy, buffer>>
    /\ UNCHANGED <<delivered, needDrain>>

\* stream.end()
StreamEnd ==
    /\ stream' = IF stream = "open" THEN "ended" ELSE stream
    /\ UNCHANGED <<streamError, destroyedBy, buffer, delivered, needDrain>>

----------------------------------------------------------------------------
(* The background task of createCompletionStreamV2 (lines 242-296) *)

\* line 244: client.chat resolves
ChatResolves ==
    /\ pcProd = "awaitChat"
    /\ connectMessages' \in SeqsUpTo(BackendMessages, MaxMsgs)
    /\ pcProd' = "loop"
    /\ UNCHANGED <<consumed, writeCalls>>
    /\ UNCHANGED <<scVars, authVars, reqVars, streamVars>>

\* lines 244 and 292-295: client.chat rejects
ChatRejects ==
    /\ pcProd = "awaitChat"
    /\ StreamDestroy("BackendError")
    /\ pcProd' = "failed"
    /\ UNCHANGED <<connectMessages, consumed, writeCalls>>
    /\ UNCHANGED <<scVars, authVars, reqVars>>

\* line 249: the next message is taken
NextMsg ==
    /\ pcProd = "loop"
    /\ consumed < Len(connectMessages)
    /\ consumed' = consumed + 1
    /\ pcProd' = "content"
    /\ UNCHANGED <<connectMessages, writeCalls>>
    /\ UNCHANGED <<scVars, authVars, reqVars, streamVars>>

\* line 249: no message is left and the loop is left normally
LoopExit ==
    /\ pcProd = "loop"
    /\ consumed = Len(connectMessages)
    /\ pcProd' = "end"
    /\ UNCHANGED <<connectMessages, consumed, writeCalls>>
    /\ UNCHANGED <<scVars, authVars, reqVars, streamVars>>

\* lines 249 and 292-295: connectMessages is whatever client.chat resolved
\* to; asking its iterator for a further element may throw instead
IterThrows ==
    /\ pcProd = "loop"
    /\ consumed = Len(connectMessages)
    /\ StreamDestroy("BackendError")
    /\ pcProd' = "failed"
    /\ UNCHANGED <<connectMessages, consumed, writeCalls>>
    /\ UNCHANGED <<scVars, authVars, reqVars>>

\* the content chunk written for every message, text or not
WriteContent_Always ==
    /\ pcProd = "content"
    /\ StreamWrite(ContentChunk(model, connectMessages[consumed].content))
    /\ pcProd' = "done"
    /\ UNCHANGED <<connectMessages, consumed>>
    /\ UNCHANGED <<scVars, authVars, reqVars>>

\* lines 250-268
WriteContent ==
    /\ pcProd = "content"
    /\ IF HasContent(connectMessages[consumed])
       THEN StreamWrite(ContentChunk(model, connectMessages[consumed].content))
       ELSE UNCHANGED <<writeCalls, streamVars>>
    /\ pcProd' = "done"
    /\ UNCHANGED <<connectMessages, consumed>>
    /\ UNCHANGED <<scVars, authVars, reqVars>>

\* lines 270-285
WriteEndChunk ==
    /\ pcProd = "done"
    /\ IF connectMessages[consumed].done
       THEN /\ StreamWrite(EndChunk(model))
            /\ pcProd' = "sentinel"
       ELSE /\ pcProd' = "loop"
            /\ UNCHANGED <<writeCalls, streamVars>>
    /\ UNCHANGED <<connectMessages, consumed>>
    /\ UNCHANGED <<scVars, authVars, reqVars>>

\* the sentinel written without the break that follows it
WriteSentinel_NoBreak ==
    /\ pcProd = "sentinel"
    /\ StreamWrite(Sentinel)
    /\ pcProd' = "loop"
    /\ UNCHANGED <<connectMessages, consumed>>
    /\ UNCHANGED <<scVars, authVars, reqVars>>

\* lines 286-287
WriteSentinel ==
    /\ pcProd = "sentinel"
    /\ StreamWrite(Sentinel)
    /\ pcProd' = "end"
    /\ UNCHANGED <<connectMessages, consumed>>
    /\ UNCHANGED <<scVars, authVars, reqVars>>

\* line 291
End ==
    /\ pcProd = "end"
    /\ StreamEnd
    /\ pcProd' = "finished"
    /\ UNCHANGED <<connectMessages, consumed, writeCalls>>
    /\ UNCHANGED <<scVars, authVars, reqVars>>

----------------------------------------------------------------------------
(* The caller that was handed the stream *)

\* The consumer runs in a turn of the event loop of its own, or as a
\* listener of the stream inside a call of stream.write; lines 249-291
\* hold no await, so it does not run between taking a message and the
\* first write for it.
ConsumerTurn == pc = "returned" /\ pcProd \notin { "loop", "content" }

\* the consumer takes the oldest buffered frame; an emptied buffer that had
\* reported full drains
ConsumerRead ==
    /\ ConsumerTurn
    /\ stream \in { "open", "ended" }
    /\ buffer # <<>>
    /\ delivered' = Append(delivered, Head(buffer))
    /\ buffer' = Tail(buffer)
    /\ needDrain' = (needDrain /\ Tail(buffer) # <<>>)
    /\ UNCHANGED <<stream, streamError, destroyedBy>>
    /\ UNCHANGED <<scVars, authVars, reqVars, prodVars>>

\* the consumer destroys the stream
ConsumerDestroy ==
    /\ ConsumerTurn
    /\ stream \in { "open", "ended" }
    /\ stream' = "destroyed"
    /\ destroyedBy' = "consumer"
    /\ buffer' = <<>>
    /\ UNCHANGED <<streamError, delivered, needDrain>>
    /\ UNCHANGED <<scVars, authVars, reqVars, prodVars>>

----------------------------------------------------------------------------
(* Properties of resolveScenario (of SpecScenario) *)

\* substring test written independently of Includes: some suffix of s
\* starts with needle
RECURSIVE HasSubstring(_, _)
HasSubstring(s, needle) ==
    IF Len(s) < Len(needle) THEN FALSE
    ELSE IF SubSeq(s, 1, Len(needle)) = needle THEN TRUE
    ELSE HasSubstring(Tail(s), needle)

\* C7: once resolveScenario has returned, the scenario is the one the
\* first-match-wins rule names (k2.5 -> K2, else search -> SEARCH, else
\* research -> RESEARCH, else k1 -> K1, else K2), the thinking flag is true
\* exactly when the name contains "thinking", whichever rule matched, and a
\* name containing both "k2.5" and "search" resolves to K2.
C7_FirstMatchWins ==
    scPc = "returned" =>
        LET k25 == HasSubstring(model, K25)
            sea == HasSubstring(model, SEARCH)
            res == HasSubstring(model, RESEARCH)
            k1  == HasSubstring(model, K1)
        IN  /\ k25 => scenario = "SCENARIO_K2"
            /\ (~k25 /\ sea) => scenario = "SCENARIO_SEARCH"
            /\ (~k25 /\ ~sea /\ res) => scenario = "SCENARIO_RESEARCH"
            /\ (~k25 /\ ~sea /\ ~res /\ k1) => scenario = "SCENARIO_K1"
            /\ (~k25 /\ ~sea /\ ~res /\ ~k1) => scenario = "SCENARIO_K2"
            /\ thinking <=> HasSubstring(model, THINKING)
            /\ (k25 /\ sea) => scenario = "SCENARIO_K2"

\* a name with both "k2.5" and "search" (and "thinking") has been resolved
C7_Witness ==
    /\ scPc = "returned"
    /\ HasSubstring(model, K25)
    /\ HasSubstring(model, SEARCH)
    /\ HasSubstring(model, THINKING)
    /\ scenario = "SCENARIO_K2"
    /\ thinking

\* C10: every scenario tag the resolver names is returned for some model
\* name; in particular some name containing "research" resolves to
\* SCENARIO_RESEARCH.
C10_EveryScenarioReachable ==
    scPc = "returned" =>
    /\ \A tag \in { "SCENARIO_K2", "SCENARIO_SEARCH", "SCENARIO_RESEARCH", "SCENARIO_K1" } :
          \E m \in ModelNames : resolveScenario(m).scenario = tag
    /\ \E m \in ModelNames :
          Includes(m, RESEARCH) /\ resolveScenario(m).scenario = "SCENARIO_RESEARCH"

----------------------------------------------------------------------------
(* Properties of extractAuthToken (of SpecAuth) *)

\* C8: with x-goog-api-key present and authorization absent, the token is
\* the API-key value with its leading "Bearer " prefix stripped (also when
\* the API-key value itself begins with "Bearer "), stated here for the
\* API keys of which something is left after stripping; with neither header
\* the extraction fails with the missing-credential error.
C8_ApiKeyTokenStripped ==
    authPc # "call" =>
        /\ ( /\ "authorization" \notin DOMAIN headers
             /\ "x-goog-api-key" \in DOMAIN headers
             /\ Trim(ReplaceBearer(headers["x-goog-api-key"])) # <<>> )
           => /\ authPc = "returned"
              /\ token = Trim(ReplaceBearer(headers["x-goog-api-key"]))
        /\ DOMAIN headers = {} => (authPc = "thrown" /\ authError = MissingMsg)

----------------------------------------------------------------------------
(* Properties of the two entry points (of Spec) *)

HasDone == \E i \in 1..Len(connectMessages) : connectMessages[i].done

\* position of the first message marked done (0 if there is none)
FirstDone ==
    IF HasDone
    THEN CHOOSE i \in 1..Len(connectMessages) :
            /\ connectMessages[i].done
            /\ \A j \in 1..(i - 1) : ~connectMessages[j].done
    ELSE 0

Count(seq, f) == Cardinality({ i \in 1..Len(seq) : seq[i] = f })

IsContentFrame(f) == f.body.object = "chat.completion.chunk" /\ f.body.hasContent

\* the content chunks of the first k messages: one per message with
\* non-empty text, in order
RECURSIVE ExpectedChunks(_, _, _)
ExpectedChunks(m, msgs, k) ==
    IF k = 0 THEN <<>>
    ELSE ExpectedChunks(m, msgs, k - 1) \o
         ( IF msgs[k].hasText /\ msgs[k].content # ""
           THEN << [prefix |-> "data: ",
                    body |-> [object |-> "chat.completion.chunk", model |-> m,
                              hasContent |-> TRUE, content |-> msgs[k].content,
                              finish_reason |-> "null"],
                    term |-> "\n\n"] >>
           ELSE <<>> )

WellFormed(f) ==
    /\ f.prefix = "data: "
    /\ f.term = "\n\n"
    /\ \/ /\ f.body.object = "chat.completion.chunk"
          /\ f.body.model = model
          /\ \/ f.body.hasContent /\ f.body.content # "" /\ f.body.finish_reason = "null"
             \/ ~f.body.hasContent /\ f.body.finish_reason = "stop"
       \/ f.body.object = "[DONE]"

\* C1: when the backend's messages contain one marked done, the sentinel is
\* only ever the last frame written and directly follows the terminal chunk,
\* at most one of each is written, no message after the first done one is
\* taken, the task does not fail, and once the loop is left exactly one
\* terminal chunk and one sentinel have been written.
C1_TerminatesOnce ==
    HasDone =>
        LET n == Len(writeCalls) IN
        /\ \A i \in 1..n :
              writeCalls[i] = Sentinel =>
                  i = n /\ i >= 2 /\ writeCalls[i - 1] = EndChunk(model)
        /\ Count(writeCalls, EndChunk(model)) <= 1
        /\ Count(writeCalls, Sentinel) <= 1
        /\ consumed <= FirstDone
        /\ pcProd # "failed"
        /\ pcProd \in { "end", "finished" } =>
              /\ n >= 2
              /\ writeCalls[n] = Sentinel
              /\ writeCalls[n - 1] = EndChunk(model)
              /\ Count(writeCalls, EndChunk(model)) = 1
              /\ Count(writeCalls, Sentinel) = 1
              /\ consumed = FirstDone

\* the task has finished on a sequence with two done messages and a
\* message after the first of them
C1_Witness ==
    /\ pcProd = "finished"
    /\ Len(connectMessages) = 3
    /\ connectMessages[1].done
    /\ connectMessages[3].done
    /\ HasContent(connectMessages[2])
    /\ consumed = 1
    /\ Count(writeCalls, Sentinel) = 1

\* C2: once the gate has run on a credential that classifies as 'refresh',
\* the call has thrown the unsupported-credential error, the RPC client has
\* not been used at all and no stream exists, whatever the messages list.
C2_OpaqueCredentialRejected ==
    (pc # "start" /\ detectTokenType(authToken) = "refresh") =>
        /\ pc = "thrown"
        /\ error = IF mode = "completion" THEN UnsupportedMsgV2 ELSE UnsupportedMsgStream
        /\ rpcCalls = <<>>
        /\ stream = "none"
        /\ pcProd = "idle"
        /\ result = NoResult

\* a streaming call with an empty messages list and a three-segment
\* credential of the wrong token type has been rejected
C2_Witness ==
    /\ mode = "stream"
    /\ messages = <<>>
    /\ authToken.eyJ /\ authToken.segments = 3 /\ authToken.payload = "object"
    /\ authToken.app_id = "kimi" /\ authToken.typ # "access"
    /\ pc = "thrown"
    /\ error = UnsupportedMsgStream
    /\ rpcCalls = <<>>

C3_FailedState ==
    pcProd = "failed" =>
        /\ stream = "destroyed"
        /\ destroyedBy \in { "producer", "consumer" }
        /\ destroyedBy = "producer" => streamError = "BackendError"
        /\ \A i \in 1..Len(writeCalls) : WellFormed(writeCalls[i])
        /\ \A i \in 1..Len(delivered) : WellFormed(delivered[i])

C3_FailedStep ==
    pcProd = "failed" =>
        /\ pcProd' = "failed"
        /\ writeCalls' = writeCalls
        /\ consumed' = consumed
        /\ stream' = "destroyed"
        /\ delivered' = delivered

\* C3: when the backend call has raised, the stream is destroyed (with the
\* backend's error, unless the consumer had destroyed it before), every
\* frame written before is a whole well-formed frame, and from then on the
\* stream is never ended, nothing more is written or delivered and no
\* message is taken.
C3_FailureDestroysStream == [](C3_FailedState) /\ [][C3_FailedStep]_vars

\* the iteration failed after a chunk had been written and read
C3_Witness ==
    /\ pcProd = "failed"
    /\ destroyedBy = "producer"
    /\ streamError = "BackendError"
    /\ Len(writeCalls) = 2
    /\ Len(delivered) = 1

\* C4: while the stream reports a full buffer (needDrain) no frame is
\* handed to it, and the frames delivered are, in order and without gaps,
\* the first frames written.
C4_BackpressureSuspends ==
    /\ [][needDrain => writeCalls' = writeCalls]_vars
    /\ [](Len(delivered) <= Len(writeCalls)
          /\ delivered = SubSeq(writeCalls, 1, Len(delivered)))

\* C5: once the consumer has destroyed the stream the background task
\* takes no further message and calls stream.write no more.
C5_DestroyStopsProducer ==
    [][destroyedBy = "consumer" => (consumed' = consumed /\ writeCalls' = writeCalls)]_vars

\* C6: messages are taken one at a time in order and never beyond the
\* first done one; the content chunks written so far are exactly those of
\* the messages handled so far, one per message with non-empty text, in
\* order; when the loop has been left the frames written are those chunks
\* for all messages up to the first done one, followed by the terminal
\* chunk and the sentinel if there was a done message; and a stream that
\* has not been destroyed holds every frame written, in that order.
C6_ChunksMatchMessages ==
    LET limit   == IF HasDone THEN FirstDone ELSE Len(connectMessages)
        handled == IF pcProd = "content" THEN consumed - 1 ELSE consumed
    IN  /\ consumed <= limit
        /\ stream # "destroyed" => delivered \o buffer = writeCalls
        /\ SelectSeq(writeCalls, IsContentFrame)
              = ExpectedChunks(model, connectMessages, handled)
        /\ pcProd \in { "end", "finished" } =>
              /\ consumed = limit
              /\ writeCalls =
                    ExpectedChunks(model, connectMessages, limit)
                    \o ( IF HasDone THEN << EndChunk(model), Sentinel >> ELSE <<>> )

\* finished on: text, no text, different text with done
C6_Witness ==
    /\ pcProd = "finished"
    /\ Len(connectMessages) = 3
    /\ HasContent(connectMessages[1])
    /\ ~connectMessages[1].done
    /\ ~HasContent(connectMessages[2])
    /\ ~connectMessages[2].done
    /\ HasContent(connectMessages[3])
    /\ connectMessages[3].done
    /\ connectMessages[1].content # connectMessages[3].content
    /\ Len(writeCalls) = 4

\* C9: a stream that was ended (not destroyed) holds, as its last two
\* frames, the terminal chunk and then the sentinel, and one of each.
C9_EndedStreamHasTerminator ==
    stream = "ended" =>
        LET frames == delivered \o buffer
            n == Len(frames)
        IN  /\ n >= 2
            /\ frames[n] = Sentinel
            /\ frames[n - 1] = EndChunk(model)
            /\ Count(frames, EndChunk(model)) = 1
            /\ Count(frames, Sentinel) = 1

----------------------------------------------------------------------------
(* Specifications *)

ScIdle ==
    /\ model = <<>>
    /\ scPc = "call"
    /\ scenario = ""
    /\ thinking = FALSE

AuthIdle ==
    /\ headers = << >>
    /\ authPc = "call"
    /\ token = <<>>
    /\ authError = ""

ReqIdle ==
    /\ mode = "completion"
    /\ authToken = NoToken
    /\ messages = <<>>
    /\ pc = "idle"
    /\ error = ""
    /\ rpcCalls = <<>>
    /\ messageContent = <<>>
    /\ config = NoConfig
    /\ result = NoResult
    /\ stream = "none"
    /\ streamError = ""
    /\ destroyedBy = ""
    /\ pcProd = "idle"
    /\ connectMessages = <<>>
    /\ consumed = 0
    /\ writeCalls = <<>>
    /\ buffer = <<>>
    /\ delivered = <<>>
    /\ needDrain = FALSE

\* resolveScenario applied to every model name of ModelNames
InitScenario == ScInit /\ AuthIdle /\ ReqIdle
NextScenario == ResolveScenario /\ UNCHANGED <<authVars, reqVars, streamVars, prodVars>>
SpecScenario == InitScenario /\ [][NextScenario]_vars

\* extractAuthToken applied to every header set of HeaderSets
InitAuth == AuthInit /\ ScIdle /\ ReqIdle
NextAuth == ExtractAuthToken /\ UNCHANGED <<scVars, reqVars, streamVars, prodVars>>
SpecAuth == InitAuth /\ [][NextAuth]_vars

\* one call of createCompletionV2 or createCompletionStreamV2, the
\* backend's answer, the background task and the stream's consumer
Init ==
    /\ ReqInit
    /\ model \in RequestModels
    /\ scPc = "call"
    /\ scenario = ""
    /\ thinking = FALSE
    /\ AuthIdle

Next ==
    \/ Gate
    \/ Prepare
    \/ ChatTextResolves
    \/ ChatTextRejects
    \/ ReturnStream
    \/ ChatResolves
    \/ ChatRejects
    \/ NextMsg
    \/ LoopExit
    \/ IterThrows
    \/ WriteContent
    \/ WriteEndChunk
    \/ WriteSentinel
    \/ End
    \/ ConsumerRead
    \/ ConsumerDestroy

Spec == Init /\ [][Next]_vars

====
